---- MODULE Spec2Model ----
(***************************************************************************)
(* Model of scripts/generate_latex_script.py: LatexFileGenerator checks    *)
(* the asset directory, builds the LaTeX document section by section and   *)
(* writes it to the output file.                                           *)
(*                                                                         *)
(* A string is a sequence of characters; folder names, file stems and      *)
(* extensions are single symbols of that sequence (they hold neither a     *)
(* space nor a backslash).  The document is the sequence of the figures    *)
(* (pages) appended to latex_code; a page body is the sequence of its      *)
(* \includegraphics, \hspace and makebox-break items.                      *)
(***************************************************************************)
EXTENDS Integers, Sequences, FiniteSets

VARIABLES
    path_to_root_dir,  \* self.path_to_root_dir, a string
    is_a4,             \* self.is_a4
    has_bleed,         \* self.has_bleed
    rotate_amd_cards,  \* self.rotate_amd_cards
    folders,           \* file system: the sub-folders that exist
    listing,           \* file system: folder name -> set of image files in it
    files,             \* file system: singleton stem -> set of extensions present
    dir_order,         \* file system: order in which glob lists a directory
    pc,                \* position of the script
    error,             \* the ValueError raised, or NoError
    latex_code,        \* latex_code of generate_latex_file
    output_file,       \* content of the file at output_path
    writes             \* number of times output_path was opened for writing

vars == <<path_to_root_dir, is_a4, has_bleed, rotate_amd_cards, folders, listing,
          files, dir_order, pc, error, latex_code, output_file, writes>>

\* ---------------------------------------------------------------- bounds
MaxAbility == 9
MaxAmd == 3
MaxNonAmd == 3

\* ------------------------------------------------------------- file system
JPG == ".jpg"
PNG == ".png"
Exts == {JPG, PNG}

\* stems of the files of a folder, in lexicographic order
Names == <<"a", "b", "c", "d", "e", "f", "g", "h", "i", "j", "k", "l">>

FolderNames == {"AbilityCards", "AMD", "NON_AMD"}

\* the eight singleton files, in the order they are checked
SingletonNames == <<"ability_card_back", "amd_back", "non_amd_back", "character_token",
                    "character_mat", "character_mat_back", "character_mini",
                    "character_sheet">>

SingletonSet == {SingletonNames[i] : i \in 1..Len(SingletonNames)}

\* root directories: a plain one, and one holding a space and a backslash
Roots == {<<"r">>, <<"m", " ", "y", "\\", "c">>}

\* a folder with n images: stems Names[1..n], odd ones .png, even ones .jpg
FolderFiles(fd, n) ==
    {[folder |-> fd, idx |-> i, stem |-> Names[i],
      ext |-> IF i % 2 = 1 THEN PNG ELSE JPG] : i \in 1..n}

\* singleton layouts: all files under the same extension(s), or alternating
\* extensions, or one file missing under both extensions
SingletonLayouts ==
    {[s \in SingletonSet |-> b] : b \in {{JPG}, {PNG}, {JPG, PNG}}}
    \cup {[s \in SingletonSet |->
              IF \E i \in 1..Len(SingletonNames) : SingletonNames[i] = s /\ i % 2 = 1
              THEN {PNG} ELSE {JPG}]}
    \cup {[s \in SingletonSet |-> IF s = d THEN {} ELSE {JPG, PNG}] : d \in SingletonSet}
    \cup {[s \in SingletonSet |-> IF s \in {"amd_back", "character_mini"} THEN {} ELSE {PNG}]}

NoError == [kind |-> "none", name |-> ""]
None == <<"None">>

\* output_path before it is opened for writing
NoFile == <<"absent">>

\* ------------------------------------------------------------ pure helpers
Min(a, b) == IF a < b THEN a ELSE b

\* Python slice s[a:b]
Slice(s, a, b) == SubSeq(s, a + 1, Min(b, Len(s)))

RECURSIVE Flatten(_)
Flatten(ss) == IF ss = <<>> THEN <<>> ELSE Head(ss) \o Flatten(Tail(ss))

\* str(Path(root) / folder / (stem + ext)); folder "" is the root itself
PathStr(root, p) ==
    root \o <<"/">> \o (IF p.folder = "" THEN <<>> ELSE <<p.folder, "/">>)
         \o <<p.stem, p.ext>>

RECURSIVE ReplaceBackslash(_)
ReplaceBackslash(s) ==
    IF s = <<>> THEN <<>>
    ELSE <<IF Head(s) = "\\" THEN "/" ELSE Head(s)>> \o ReplaceBackslash(Tail(s))

RECURSIVE EscapeSpace(_)
EscapeSpace(s) ==
    IF s = <<>> THEN <<>>
    ELSE (IF Head(s) = " " THEN <<"\\", " ">> ELSE <<Head(s)>>) \o EscapeSpace(Tail(s))

\* p.replace("\\", "/").replace(" ", "\\ ")
sanitize_path(s) == EscapeSpace(ReplaceBackslash(s))

\* order of two paths of one folder: by stem, then by extension
PathKey(p) == 2 * p.idx + (IF p.ext = JPG THEN 0 ELSE 1)

RECURSIVE Insert(_, _)
Insert(p, s) ==
    IF s = <<>> THEN <<p>>
    ELSE IF PathKey(p) <= PathKey(Head(s)) THEN <<p>> \o s
    ELSE <<Head(s)>> \o Insert(p, Tail(s))

\* variant: the list is left in glob order
SortPathsNone(s) == s

\* list.sort()
RECURSIVE SortPaths(_)
SortPaths(s) == IF s = <<>> THEN <<>> ELSE Insert(Head(s), SortPaths(Tail(s)))

\* the files of a set in directory order
RECURSIVE DirList(_, _)
DirList(S, order) ==
    IF S = {} THEN <<>>
    ELSE LET p == IF order = "asc"
                  THEN CHOOSE x \in S : \A y \in S : PathKey(x) <= PathKey(y)
                  ELSE CHOOSE x \in S : \A y \in S : PathKey(x) >= PathKey(y)
         IN <<p>> \o DirList(S \ {p}, order)

\* list(Path(root / folder).glob("*" + ext)); a missing folder lists nothing
Glob(fs_folders, fs_listing, order, fd, ext) ==
    IF fd \notin fs_folders THEN <<>>
    ELSE DirList({p \in fs_listing[fd] : p.ext = ext}, order)

\* glob("*.jpg") + glob("*.png"), then sort()
SortedImages(fs_folders, fs_listing, order, fd) ==
    SortPaths(Glob(fs_folders, fs_listing, order, fd, JPG)
              \o Glob(fs_folders, fs_listing, order, fd, PNG))

\* the .jpg file if it exists, else the .png one
Resolve(fs_files, stem) ==
    [folder |-> "", idx |-> 0, stem |-> stem,
     ext |-> IF JPG \in fs_files[stem] THEN JPG ELSE PNG]

SanitizeAll(root, ps) == [i \in 1..Len(ps) |-> sanitize_path(PathStr(root, ps[i]))]

\* ------------------------------------------------------------ markup items
Img(opt, mirror, path) == [t |-> "img", opt |-> opt, mirror |-> mirror, path |-> path]
HSpace == [t |-> "hspace", opt |-> "", mirror |-> FALSE, path |-> <<>>]
RowBreak == [t |-> "row", opt |-> "", mirror |-> FALSE, path |-> <<>>]

Figure(sec, gin, body) == [sec |-> sec, gin |-> gin, body |-> body]

\* ---------------------------------------------------------------- emitters
header(a4) == Figure("header", IF a4 THEN "a4paper" ELSE "letterpaper", <<>>)

end_document == Figure("end", "", <<>>)

\* variant: the sheet page is returned once
character_sheet_once(path_to_sheet) ==
    <<Figure("sheet", "",
             <<Img("height=14cm", FALSE, path_to_sheet), HSpace,
               Img("height=14cm", FALSE, path_to_sheet)>>)>>

\* res + res
character_sheet(path_to_sheet) ==
    LET res == Figure("sheet", "",
                      <<Img("height=14cm", FALSE, path_to_sheet), HSpace,
                        Img("height=14cm", FALSE, path_to_sheet)>>)
    IN <<res, res>>

AmdOpt(rotate) == IF rotate THEN "angle=90, width=4.4cm" ELSE "width=4.4cm"

\* one iteration of the card loop of amd_cards_one_page
AmdCardItem(amd_paths, i, rotate) ==
    <<Img(AmdOpt(rotate), FALSE, amd_paths[i + 1])>>
    \o (IF i # Len(amd_paths) - 1 /\ i # 4 THEN <<HSpace>> ELSE <<>>)
    \o (IF i = 4 THEN <<RowBreak>> ELSE <<>>)

\* one iteration of the token loop of amd_cards_one_page
TokenItem(token_path, i) ==
    <<Img("width=1.45cm", FALSE, token_path), HSpace,
      Img("width=1.45cm", TRUE, token_path)>>
    \o (IF i # 9 THEN <<HSpace>> ELSE <<>>)

amd_cards_one_page(amd_paths, token_path, rotate) ==
    Figure("amd_page", "6.9cm",
           Flatten([k \in 1..Len(amd_paths) |-> AmdCardItem(amd_paths, k - 1, rotate)])
           \o (IF token_path # None
               THEN <<RowBreak>> \o Flatten([k \in 1..5 |-> TokenItem(token_path, k - 1)])
               ELSE <<>>))

\* variant: floor division plus one, as for the ability cards
AmdNumPagesPlusOne(n, cards_per_page) == n \div cards_per_page + 1

\* (n + cards_per_page - 1) // cards_per_page
AmdNumPages(n, cards_per_page) == (n + cards_per_page - 1) \div cards_per_page

\* variant: every page gets the tokens
AmdPageTokenAlways(i, num_pages, character_token_path) == character_token_path

\* the token argument of page i of num_pages
AmdPageToken(i, num_pages, character_token_path) ==
    IF i # num_pages - 1 THEN None ELSE character_token_path

amd_cards(amd_paths, character_token_path, rotate) ==
    LET n == Len(amd_paths)
        cards_per_page == 10
        num_pages == AmdNumPages(n, cards_per_page)
    IN [k \in 1..num_pages |->
          amd_cards_one_page(Slice(amd_paths, cards_per_page * (k - 1), cards_per_page * k),
                             AmdPageToken(k - 1, num_pages, character_token_path),
                             rotate)]

CardsPerLine(a4, bleed) == IF ~a4 /\ bleed THEN 3 ELSE 4

\* variant: the spacing test forgets the end of the row
AbilityCardItemSpaced(card_paths, i, cards_per_line) ==
    <<Img("", FALSE, card_paths[i + 1])>>
    \o (IF i # Len(card_paths) - 1 THEN <<HSpace>> ELSE <<>>)
    \o (IF i = cards_per_line - 1 THEN <<RowBreak>> ELSE <<>>)

\* one iteration of the loop of ability_cards_one_page
AbilityCardItem(card_paths, i, cards_per_line) ==
    <<Img("", FALSE, card_paths[i + 1])>>
    \o (IF i # Len(card_paths) - 1 /\ i # cards_per_line - 1 THEN <<HSpace>> ELSE <<>>)
    \o (IF i = cards_per_line - 1 THEN <<RowBreak>> ELSE <<>>)

ability_cards_one_page(card_paths, a4, bleed) ==
    Figure("ability_page", IF bleed THEN "6.99cm" ELSE "6.35cm",
           Flatten([k \in 1..Len(card_paths) |->
                      AbilityCardItem(card_paths, k - 1, CardsPerLine(a4, bleed))]))

\* variant: strict ceiling division
AbilityNumPagesCeil(n, cards_per_line) ==
    (n + 2 * cards_per_line - 1) \div (2 * cards_per_line)

\* len(card_paths) // (2 * cards_per_line) + 1
AbilityNumPages(n, cards_per_line) == n \div (2 * cards_per_line) + 1

\* variant: a single back-plate whatever the front page holds
BackPlatesOne(cards_in_page, ability_card_back) == <<ability_card_back>>

\* [ability_card_back for _ in range(len(cards_in_page))]
BackPlates(cards_in_page, ability_card_back) ==
    [k \in 1..Len(cards_in_page) |-> ability_card_back]

ability_cards(card_paths, ability_card_back, a4, bleed) ==
    LET cards_per_line == CardsPerLine(a4, bleed)
        cards_in_page(i) ==
            Slice(card_paths, 2 * cards_per_line * i, 2 * cards_per_line * (i + 1))
    IN Flatten([k \in 1..AbilityNumPages(Len(card_paths), cards_per_line) |->
                  <<ability_cards_one_page(cards_in_page(k - 1), a4, bleed),
                    ability_cards_one_page(BackPlates(cards_in_page(k - 1),
                                                      ability_card_back), a4, bleed)>>])

character_mat(mat_front_path, mat_back_path, characer_mini_path) ==
    <<Figure("mat_front", "",
             <<Img("width=14.5cm,height=9.5cm", FALSE, mat_front_path), HSpace, RowBreak,
               Img("width=4cm", FALSE, characer_mini_path)>>),
      Figure("mat_back", "",
             <<Img("width=14.5cm,height=9.5cm", FALSE, mat_back_path), RowBreak,
               Img("width=4cm", TRUE, characer_mini_path), HSpace>>)>>

\* ------------------------------------------------- check_root_dir_consistency
\* index of the first singleton missing under both extensions, 0 if none
FirstMissingFile(fs_files) ==
    LET missing == {i \in 1..Len(SingletonNames) : fs_files[SingletonNames[i]] = {}}
    IN IF missing = {} THEN 0 ELSE CHOOSE i \in missing : \A j \in missing : i <= j

\* variant: the AMD folder is not checked
check_root_dir_consistency_NoAmd(fs_folders, fs_files) ==
    IF "AbilityCards" \notin fs_folders THEN [kind |-> "folder", name |-> "AbilityCards"]
    ELSE IF FirstMissingFile(fs_files) # 0
         THEN [kind |-> "file", name |-> SingletonNames[FirstMissingFile(fs_files)]]
         ELSE NoError

\* the error check_root_dir_consistency raises, NoError if it returns
check_root_dir_consistency(fs_folders, fs_files) ==
    IF "AbilityCards" \notin fs_folders THEN [kind |-> "folder", name |-> "AbilityCards"]
    ELSE IF "AMD" \notin fs_folders THEN [kind |-> "folder", name |-> "AMD"]
    ELSE IF FirstMissingFile(fs_files) # 0
         THEN [kind |-> "file", name |-> SingletonNames[FirstMissingFile(fs_files)]]
         ELSE NoError

\* ------------------------------------------------------ generate_latex_file
\* variant: the AMD section is built before the ability cards
StatementOrderAmdFirst ==
    <<"header", "amd", "ability", "mat", "sheet", "end", "write", "done">>

\* the order of the statements of generate_latex_file
StatementOrder == <<"header", "ability", "amd", "mat", "sheet", "end", "write", "done">>

After(label) ==
    StatementOrder[1 + CHOOSE i \in 1..(Len(StatementOrder) - 1) : StatementOrder[i] = label]

SanitizedSingleton(stem) == sanitize_path(PathStr(path_to_root_dir, Resolve(files, stem)))

\* card_paths passed to ability_cards
AbilityCardPaths ==
    SanitizeAll(path_to_root_dir, SortedImages(folders, listing, dir_order, "AbilityCards"))

\* all_amd_cards passed to amd_cards
AllAmdCards ==
    LET amd_paths == SortedImages(folders, listing, dir_order, "AMD")
        non_amd_paths == SortedImages(folders, listing, dir_order, "NON_AMD")
        amd_backs == [k \in 1..Len(amd_paths) |-> Resolve(files, "amd_back")]
        non_amd_backs == [k \in 1..Len(non_amd_paths) |-> Resolve(files, "non_amd_back")]
        all_amd == amd_paths \o non_amd_paths
        all_backs == amd_backs \o non_amd_backs
    IN [k \in 1..Len(all_amd \o all_backs) |->
          sanitize_path(PathStr(path_to_root_dir, (all_amd \o all_backs)[k]))]

Init ==
    /\ path_to_root_dir \in Roots
    /\ is_a4 \in BOOLEAN
    /\ has_bleed \in BOOLEAN
    /\ rotate_amd_cards = TRUE
    /\ folders \in SUBSET FolderNames
    /\ \E na \in 0..MaxAbility, nm \in 0..MaxAmd, nn \in 0..MaxNonAmd :
          listing = [fd \in FolderNames |->
                       IF fd \notin folders THEN {}
                       ELSE FolderFiles(fd, IF fd = "AbilityCards" THEN na
                                            ELSE IF fd = "AMD" THEN nm ELSE nn)]
    /\ files \in SingletonLayouts
    /\ dir_order \in {"asc", "desc"}
    /\ pc = "new"
    /\ error = NoError
    /\ latex_code = <<>>
    /\ output_file = NoFile
    /\ writes = 0

\* LatexFileGenerator(...): __init__ returns
Construct ==
    /\ pc = "new"
    /\ check_root_dir_consistency(folders, files) = NoError
    /\ pc' = StatementOrder[1]
    /\ UNCHANGED <<path_to_root_dir, is_a4, has_bleed, rotate_amd_cards, folders, listing,
                   files, dir_order, error, latex_code, output_file, writes>>

\* LatexFileGenerator(...): __init__ raises ValueError
ConstructRaises ==
    /\ pc = "new"
    /\ check_root_dir_consistency(folders, files) # NoError
    /\ error' = check_root_dir_consistency(folders, files)
    /\ pc' = "raised"
    /\ UNCHANGED <<path_to_root_dir, is_a4, has_bleed, rotate_amd_cards, folders, listing,
                   files, dir_order, latex_code, output_file, writes>>

Emit(label, fragments) ==
    /\ pc = label
    /\ latex_code' = latex_code \o fragments
    /\ pc' = After(label)
    /\ UNCHANGED <<path_to_root_dir, is_a4, has_bleed, rotate_amd_cards, folders, listing,
                   files, dir_order, error, output_file, writes>>

Header == Emit("header", <<header(is_a4)>>)

AbilityCards ==
    Emit("ability", ability_cards(AbilityCardPaths, SanitizedSingleton("ability_card_back"),
                                  is_a4, has_bleed))

AmdCards ==
    Emit("amd", amd_cards(AllAmdCards, SanitizedSingleton("character_token"),
                          rotate_amd_cards))

CharacterMat ==
    Emit("mat", character_mat(SanitizedSingleton("character_mat"),
                              SanitizedSingleton("character_mat_back"),
                              SanitizedSingleton("character_mini")))

CharacterSheet == Emit("sheet", character_sheet(SanitizedSingleton("character_sheet")))

EndDocument == Emit("end", <<end_document>>)

\* with open(self.output_path, "w") as f: f.write(latex_code)
WriteOutput ==
    /\ pc = "write"
    /\ output_file' = latex_code
    /\ writes' = writes + 1
    /\ pc' = After("write")
    /\ UNCHANGED <<path_to_root_dir, is_a4, has_bleed, rotate_amd_cards, folders, listing,
                   files, dir_order, error, latex_code>>

Next ==
    \/ Construct
    \/ ConstructRaises
    \/ Header
    \/ AbilityCards
    \/ AmdCards
    \/ CharacterMat
    \/ CharacterSheet
    \/ EndDocument
    \/ WriteOutput

Spec == Init /\ [][Next]_vars

\* ------------------------------------------------------------- observations
Pos(label) == CHOOSE i \in 1..Len(StatementOrder) : StatementOrder[i] = label

\* the statement labelled label has been executed
Past(label) == pc \notin {"new", "raised"} /\ Pos(pc) > Pos(label)

IsImg(e) == e.t = "img"
IsToken(e) == e.t = "img" /\ e.opt = "width=1.45cm"
IsCard(e) == e.t = "img" /\ e.opt # "width=1.45cm"
IsAbilityPage(f) == f.sec = "ability_page"
IsAmdPage(f) == f.sec = "amd_page"

Images(f) == SelectSeq(f.body, IsImg)
Cards(f) == SelectSeq(f.body, IsCard)
Tokens(f) == SelectSeq(f.body, IsToken)

AbilityPages == SelectSeq(latex_code, IsAbilityPage)
AmdPages == SelectSeq(latex_code, IsAmdPage)

\* the ability-card pages at odd positions of the ability-card section
FrontPages == [k \in 1..((Len(AbilityPages) + 1) \div 2) |-> AbilityPages[2 * k - 1]]

CountOf(fd) == IF fd \in folders THEN Cardinality(listing[fd]) ELSE 0
Capacity == 2 * (IF ~is_a4 /\ has_bleed THEN 3 ELSE 4)
CeilDiv(n, c) == (n + c - 1) \div c

\* the sanitized paths of the images of a folder, in lexicographic order
ExpectedFronts(fd) ==
    [i \in 1..CountOf(fd) |->
       sanitize_path(PathStr(path_to_root_dir, CHOOSE p \in listing[fd] : p.idx = i))]

Copies(n, x) == [i \in 1..n |-> x]
PathsOf(imgs) == [i \in 1..Len(imgs) |-> imgs[i].path]
AllItems == Flatten([i \in 1..Len(latex_code) |-> latex_code[i].body])
AllCardsOf(pages) == Flatten([i \in 1..Len(pages) |-> PathsOf(Cards(pages[i]))])

\* number of images of the document with this path and mirroring
CountImg(path, mirror) ==
    LET items == AllItems
    IN Cardinality({i \in 1..Len(items) :
                      items[i].t = "img" /\ items[i].path = path
                      /\ items[i].mirror = mirror})

\* ---------------------------------------------------------------------- C1
\* C1: once ability_cards has run, the number of front pages is
\* floor(N / capacity) + 1 with capacity = 2 x cardsPerLine; when N is a
\* multiple of capacity the last front page holds zero images, and no other
\* front page is ever empty.
C1_FrontPageCount ==
    Past("ability") =>
        LET n == CountOf("AbilityCards")
            fronts == FrontPages
        IN /\ Len(fronts) = n \div Capacity + 1
           /\ Len(AbilityPages) = 2 * Len(fronts)
           /\ \A k \in 1..Len(fronts) :
                 (Images(fronts[k]) = <<>>) <=> (k = Len(fronts) /\ n % Capacity = 0)

C1_Witness ==
    /\ Past("ability") /\ is_a4 /\ CountOf("AbilityCards") = 8
    /\ Len(FrontPages) = 2 /\ Images(FrontPages[2]) = <<>>

\* ---------------------------------------------------------------------- C2
\* C2: the ability-card pages are contiguous in the document and alternate
\* front, back: the page after each front page holds only the ability-card
\* back-plate, as many times as the front page has images, and a front page
\* holds no back-plate.
C2_FrontBackAlternate ==
    LET back == SanitizedSingleton("ability_card_back")
        pages == AbilityPages
    IN /\ Len(pages) % 2 = 0
       /\ \A i \in 1..Len(latex_code) :
             (IsAbilityPage(latex_code[i]) /\ i < Len(latex_code)
              /\ ~IsAbilityPage(latex_code[i + 1]))
                => \A j \in (i + 1)..Len(latex_code) : ~IsAbilityPage(latex_code[j])
       /\ \A k \in 1..(Len(pages) \div 2) :
             LET front == Images(pages[2 * k - 1])
                 backs == Images(pages[2 * k])
             IN /\ Len(backs) = Len(front)
                /\ \A m \in 1..Len(backs) : backs[m].path = back
                /\ \A m \in 1..Len(front) : front[m].path # back

C2_Witness ==
    /\ Past("ability") /\ is_a4 /\ CountOf("AbilityCards") = 9
    /\ Len(AbilityPages) = 4
    /\ Len(Images(AbilityPages[3])) = 1 /\ Len(Images(AbilityPages[4])) = 1

\* ---------------------------------------------------------------------- C3
PagesAreCeil(pgs, n, c) ==
    LET pages == pgs
    IN
    /\ Len(pages) = CeilDiv(n, c)
    /\ \A k \in 1..Len(pages) :
          IF k < Len(pages) THEN Len(Cards(pages[k])) = c
          ELSE Len(Cards(pages[k])) \in 1..c

\* C3: both paginated categories produce exactly ceil(N/C) pages, every page
\* before the last holds C items and the last holds 1..C items (no emitted
\* page is empty).
C3_CeilPagesNoneEmpty ==
    Past("amd") =>
        /\ PagesAreCeil(FrontPages, CountOf("AbilityCards"), Capacity)
        /\ PagesAreCeil(AmdPages, 2 * (CountOf("AMD") + CountOf("NON_AMD")), 10)

\* ---------------------------------------------------------------------- C4
\* C4: the card images of the AMD-category pages, concatenated in emission
\* order, are the sorted AMD fronts, the sorted NON_AMD fronts, N AMD
\* back-plates and M NON_AMD back-plates; the images of the ability-card
\* front pages, concatenated, are the sorted ability-card list.
C4_NoDropDupReorder ==
    Past("amd") =>
        /\ AllCardsOf(AmdPages) =
              ExpectedFronts("AMD") \o ExpectedFronts("NON_AMD")
              \o Copies(CountOf("AMD"), SanitizedSingleton("amd_back"))
              \o Copies(CountOf("NON_AMD"), SanitizedSingleton("non_amd_back"))
        /\ Len(AllCardsOf(AmdPages)) = 2 * (CountOf("AMD") + CountOf("NON_AMD"))
        /\ AllCardsOf(FrontPages) = ExpectedFronts("AbilityCards")

C4_Witness ==
    /\ Past("amd") /\ dir_order = "desc"
    /\ CountOf("AMD") = 3 /\ CountOf("NON_AMD") = 3 /\ CountOf("AbilityCards") = 9
    /\ Len(AmdPages) = 2

\* ---------------------------------------------------------------------- C5
\* C5: no AMD-category page but the last holds a token image; the last one
\* holds exactly 10, alternating the token and its mirrored copy.
C5_TokensOnLastPageOnly ==
    Past("amd") =>
        LET pages == AmdPages
        IN
        /\ \A k \in 1..(Len(pages) - 1) : Tokens(pages[k]) = <<>>
        /\ Len(pages) >= 1 =>
              LET toks == Tokens(pages[Len(pages)])
              IN /\ Len(toks) = 10
                 /\ \A j \in 1..Len(toks) :
                       /\ toks[j].mirror = (j % 2 = 0)
                       /\ toks[j].path = SanitizedSingleton("character_token")

C5_Witness ==
    /\ Past("amd") /\ Len(AmdPages) = 2
    /\ Len(Cards(AmdPages[1])) = 10 /\ Len(Cards(AmdPages[2])) = 2
    /\ Len(Tokens(AmdPages[2])) = 10

\* ---------------------------------------------------------------------- C6
AssetMissing ==
    \/ "AbilityCards" \notin folders
    \/ "AMD" \notin folders
    \/ \E s \in SingletonSet : files[s] = {}

\* C6: a missing AbilityCards or AMD folder or singleton file raises, in the
\* constructor, an error naming a missing folder or file, with nothing built
\* and nothing written; the output file is written at most once, with the
\* whole document; a missing NON_AMD folder raises nothing and adds no image.
C6_FailFastNothingWritten ==
    /\ (pc # "new" /\ AssetMissing) =>
          /\ pc = "raised" /\ latex_code = <<>> /\ writes = 0 /\ output_file = NoFile
          /\ error.kind \in {"folder", "file"}
          /\ error.kind = "folder" => error.name \in {"AbilityCards", "AMD"} \ folders
          /\ error.kind = "file" => error.name \in SingletonSet /\ files[error.name] = {}
    /\ ~AssetMissing => (pc # "raised" /\ error = NoError)
    /\ writes <= 1
    /\ pc # "done" => (writes = 0 /\ output_file = NoFile)
    /\ pc = "done" =>
          /\ writes = 1 /\ output_file = latex_code
          /\ latex_code[Len(latex_code)].sec = "end"
    /\ (Past("amd") /\ "NON_AMD" \notin folders) =>
          /\ Len(AllCardsOf(AmdPages)) = 2 * CountOf("AMD")
          /\ CountImg(SanitizedSingleton("non_amd_back"), FALSE) = 0

C6_Witness ==
    /\ pc = "raised" /\ "AbilityCards" \in folders /\ "AMD" \notin folders
    /\ error = [kind |-> "folder", name |-> "AMD"] /\ writes = 0

\* ---------------------------------------------------------------------- C7
SectionRank(f) ==
    CASE f.sec = "header" -> 0
      [] f.sec = "ability_page" -> 1
      [] f.sec = "amd_page" -> 2
      [] f.sec \in {"mat_front", "mat_back"} -> 3
      [] f.sec = "sheet" -> 4
      [] f.sec = "end" -> 5

\* C7: at every moment the fragments of the document are in the order
\* header, ability-card pages, AMD-category pages, mat/mini pages, sheet
\* pages, end of document; the written document starts with the header and
\* ends with the end of document.
C7_SectionOrder ==
    /\ \A i \in 1..(Len(latex_code) - 1) :
          /\ SectionRank(latex_code[i]) <= SectionRank(latex_code[i + 1])
          /\ latex_code[i].sec = "mat_back" => latex_code[i + 1].sec # "mat_front"
    /\ pc = "done" =>
          /\ SectionRank(output_file[1]) = 0
          /\ SectionRank(output_file[Len(output_file)]) = 5
          /\ \E i \in 1..Len(output_file) : SectionRank(output_file[i]) = 3
          /\ \E i \in 1..Len(output_file) : SectionRank(output_file[i]) = 4

C7_Witness ==
    /\ pc = "done" /\ CountOf("AbilityCards") = 0 /\ CountOf("AMD") = 2
    /\ "NON_AMD" \notin folders /\ Len(AmdPages) = 1 /\ Len(output_file) = 9

\* ---------------------------------------------------------------------- C8
MatMiniCounts ==
    /\ CountImg(SanitizedSingleton("character_mat"), FALSE) = 1
    /\ CountImg(SanitizedSingleton("character_mat_back"), FALSE) = 1
    /\ CountImg(SanitizedSingleton("character_mini"), FALSE) = 1
    /\ CountImg(SanitizedSingleton("character_mini"), TRUE) = 1
    /\ CountImg(SanitizedSingleton("character_mat"), TRUE) = 0
    /\ CountImg(SanitizedSingleton("character_mat_back"), TRUE) = 0
    /\ \E i \in 1..Len(latex_code) :
          /\ latex_code[i].sec = "mat_front"
          /\ \E m \in 1..Len(latex_code[i].body) :
                latex_code[i].body[m] =
                   Img("width=4cm", FALSE, SanitizedSingleton("character_mini"))
    /\ \E i \in 1..Len(latex_code) :
          /\ latex_code[i].sec = "mat_back"
          /\ \E m \in 1..Len(latex_code[i].body) :
                latex_code[i].body[m] =
                   Img("width=4cm", TRUE, SanitizedSingleton("character_mini"))

IsSheetPage(f) == f.sec = "sheet"

\* C8 as stated: the built document holds exactly one mat-front image, one
\* mat-back image, one unmirrored mini on the mat-front page, one mirrored
\* mini on the mat-back page, and the character-sheet image exactly twice.
C8_SheetImageTwice ==
    Past("sheet") =>
        /\ MatMiniCounts
        /\ CountImg(SanitizedSingleton("character_sheet"), FALSE) = 2

\* C8 amended: as above for the mat and the mini; the character-sheet page is
\* emitted exactly twice and each of the two pages holds the sheet image
\* twice, so the document holds the sheet image four times.
C8_SheetPageTwice ==
    Past("sheet") =>
        /\ MatMiniCounts
        /\ Len(SelectSeq(latex_code, IsSheetPage)) = 2
        /\ \A i \in 1..Len(latex_code) :
              IsSheetPage(latex_code[i]) =>
                 PathsOf(Images(latex_code[i])) =
                    Copies(2, SanitizedSingleton("character_sheet"))
        /\ CountImg(SanitizedSingleton("character_sheet"), FALSE) = 4
        /\ CountImg(SanitizedSingleton("character_sheet"), TRUE) = 0

C8_Witness ==
    /\ pc = "done" /\ Len(SelectSeq(output_file, IsSheetPage)) = 2
    /\ CountImg(SanitizedSingleton("character_sheet"), FALSE) = 4

\* ---------------------------------------------------------------------- C9
\* number of card images among the first p items of a body
CardsUpTo(body, p) == Cardinality({q \in 1..p : IsCard(body[q])})

\* the card images of one page are in rows of r
RowsOf(bd, r) ==
    LET body == bd
        total == CardsUpTo(body, Len(body))
    IN /\ total <= 2 * r
       /\ \A p \in 1..Len(body) :
             IsCard(body[p]) =>
                LET k == CardsUpTo(body, p)
                IN IF k = r
                   THEN p < Len(body) /\ body[p + 1] = RowBreak
                   ELSE IF k < total
                   THEN /\ p + 2 <= Len(body)
                        /\ body[p + 1] = HSpace
                        /\ IsCard(body[p + 2])
                   ELSE p = Len(body) \/ body[p + 1] = RowBreak
       /\ \A p \in 1..Len(body) :
             (body[p] = HSpace /\ CardsUpTo(body, p) < total) =>
                (p > 1 /\ IsCard(body[p - 1]) /\ CardsUpTo(body, p) # r)
       /\ \A p \in 1..Len(body) :
             (body[p] = RowBreak /\ CardsUpTo(body, p) < total) =>
                CardsUpTo(body, p) = r

C10_TokensIffAnyAmd ==
    Past("amd") =>
        LET n == CountOf("AMD") + CountOf("NON_AMD")
            items == AllItems
            tokens == {i \in 1..Len(items) : IsToken(items[i])}
        IN /\ (tokens # {}) <=> (n >= 1)
           /\ n = 0 => (AmdPages = <<>> /\ error = NoError)

C10_Witness ==
    /\ pc = "done" /\ "AMD" \in folders /\ CountOf("AMD") + CountOf("NON_AMD") = 0
    /\ AmdPages = <<>> /\ error = NoError /\ writes = 1

TypeOK == pc \in {"new", "raised"} \cup {StatementOrder[i] : i \in 1..Len(StatementOrder)}
====
